---- MODULE Spec2Model ----
(***************************************************************************)
(* ReScheduler (src/index.js, lines 1-307): payloads wait in a Redis       *)
(* sorted set, scored by the timestamp at which they are due; checkNow     *)
(* moves the ones that are due onto the target list, either with one       *)
(* server-side Lua script (Redis >= 2.6.0) or with three separate          *)
(* commands (zrangebyscore, rpush, zrem).                                  *)
(*                                                                         *)
(* The Redis server is the shared state (zset, list).  Every command the   *)
(* module sends is one atomic step of the server, and may fail.  Several   *)
(* checkNow invocations (manual calls, timer ticks) can be in flight at    *)
(* once; other clients may enqueue and pop at any time.                    *)
(*                                                                         *)
(* Spec explores the scheduling operations; SpecNegotiation onReady's      *)
(* choice of path; SpecLifecycle connection loss, stopChecking and         *)
(* shutdown; SpecLive the automatic checks under fairness; SpecWrap qWrap  *)
(* and the promisified methods of several instances.                       *)
(***************************************************************************)
EXTENDS Integers, Sequences, FiniteSets, TLC

\* ------------------------------------------------------------------ bounds

NumPayloads == 2      \* distinct payload values
MaxClock == 2         \* the clock reads 1..MaxClock minutes after the epoch
MaxList == 2          \* longest target list explored
NumInv == 2           \* checkNow invocations that can be in flight at once
MaxMajor == 3         \* server versions explored: 0..MaxMajor . 0..MaxMinor . 0..MaxPatch
MaxMinor == 7
MaxPatch == 9
NumInstances == 2     \* scheduler instances created from the one prototype

\* --------------------------------------------------------------- constants

MsPerMinute == 60 * 1000              \* enqueueIn: minutes * 60 * 1000
DefaultCheckInterval == 60 * 1000     \* _options.checkInterval
minVersionForEval == <<2, 6, 0>>
RangeMin == 0                         \* the lower score of both range commands

PayloadNames == <<"A", "B", "C", "D">>
Payloads == {PayloadNames[k] : k \in 1..NumPayloads}
\* Redis orders members of equal score lexicographically
Rank(p) == CHOOSE k \in 1..Len(PayloadNames) : PayloadNames[k] = p

TargetList == "myqueue"
ZsetName == TargetList \o "-scheduler"

\* Timestamps: a minute before the epoch, the epoch, the last clock reading
Times == {-MsPerMinute, 0, MaxClock * MsPerMinute}
ClockTimes == {k * MsPerMinute : k \in 1..MaxClock}
Minutes == -2..1
Invs == 1..NumInv
Instances == 1..NumInstances
Versions == (0..MaxMajor) \X (0..MaxMinor) \X (0..MaxPatch)
\* the versions the scheduling behaviours are explored with
SchedulingVersions == {<<2, 5, 9>>, <<2, 6, 0>>}

VARIABLES
    zset,               \* the sorted set zsetName: member -> score
    list,               \* the Redis list targetList
    now,                \* (new Date()).getTime()
    clientReady,        \* this.client.ready
    options,            \* this.options
    serverVersion,      \* this.client.server_info.versions, <<>> before ready
    usingServerEval,    \* this._usingServerEval: "undefined", "true", "false"
    intervalId,         \* scheduleAutoCheck's intervalId: "undefined" or "set"
    pc,                 \* per invocation: "idle", "rpush", "zrem"
    scheduledPayloads,  \* per invocation: checkNow's scheduledPayloads array
    appendedSince,      \* per payload: appends to list since its last enqueueAt, to 2
    reply,              \* the last completion delivered to a callback
    clientOpen,         \* this.client has not been told to quit
    shutDown,           \* shutdown() has been called and has returned
    wrapped,            \* qWrap's closure variable `wrapped`
    promisified,        \* per instance: promisify layers on its five methods
    call                \* the last call made on an instance, and what came of it

\* what the scheduling operations leave alone
wrapVars == <<wrapped, promisified, call>>

vars == <<zset, list, now, clientReady, options, serverVersion, usingServerEval,
          intervalId, pc, scheduledPayloads, appendedSince, reply, clientOpen,
          shutDown, wrapped, promisified, call>>

\* ------------------------------------------------------------ sequences

Range(s) == {s[k] : k \in 1..Len(s)}

IsPrefix(s, t) == Len(s) <= Len(t) /\ SubSeq(t, 1, Len(s)) = s

\* what t holds after its prefix s
Suffix(s, t) == SubSeq(t, Len(s) + 1, Len(t))

\* ------------------------------------------------------- Redis commands

\* member p comes before member q in the sorted set z
Before(z, p, q) == z[p] < z[q] \/ (z[p] = z[q] /\ Rank(p) < Rank(q))

RECURSIVE SortByScoreDescending(_, _)
SortByScoreDescending(z, S) ==
    IF S = {} THEN <<>>
    ELSE LET m == CHOOSE p \in S : \A q \in S \ {p} : Before(z, q, p)
         IN  <<m>> \o SortByScoreDescending(z, S \ {m})

\* the members S of z in the sorted set's order
RECURSIVE SortByScore(_, _)
SortByScore(z, S) ==
    IF S = {} THEN <<>>
    ELSE LET m == CHOOSE p \in S : \A q \in S \ {p} : Before(z, p, q)
         IN  <<m>> \o SortByScore(z, S \ {m})

\* a sorted set with no member
EmptyZset == [p \in {} |-> 0]

ZAddKeepsScore(z, score, member) ==
    [zset |-> z @@ (member :> score),
     ret  |-> IF member \in DOMAIN z THEN 0 ELSE 1]

\* ZADD key score member: the new set, and 1 for a new member, 0 for an update
ZAdd(z, score, member) ==
    [zset |-> (member :> score) @@ z,
     ret  |-> IF member \in DOMAIN z THEN 0 ELSE 1]

ZRangeByScoreIgnoresMax(z, min, max) ==
    SortByScore(z, {p \in DOMAIN z : min <= z[p]})

\* ZRANGEBYSCORE key min max: the members scored min..max, ascending
ZRangeByScore(z, min, max) ==
    SortByScore(z, {p \in DOMAIN z : min <= z[p] /\ z[p] <= max})

\* ZREMRANGEBYSCORE key min max
ZRemRangeByScore(z, min, max) ==
    [p \in {q \in DOMAIN z : ~(min <= z[q] /\ z[q] <= max)} |-> z[p]]

ZRemUpToScore(z, members) ==
    LET held == Range(members) \cap DOMAIN z
    IN  [p \in {q \in DOMAIN z :
                  /\ q \notin held
                  /\ z[q] < RangeMin \/ \A m \in held : z[q] > z[m]} |-> z[p]]

\* ZREM key member...
ZRem(z, members) == [p \in DOMAIN z \ Range(members) |-> z[p]]

\* ZCARD key
ZCard(z) == Cardinality(DOMAIN z)

RPushDropsLast(l, values) == l \o SubSeq(values, 1, Len(values) - 1)

\* RPUSH key value...
RPush(l, values) == l \o values

\* BLPOP key timeout on a list that holds something: [key, value], and the rest
BLPop(l) == [res |-> <<TargetList, Head(l)>>, list |-> Tail(l)]

\* luaScript, run by EVAL as one step of the server: KEYS[1] the sorted set,
\* KEYS[2] the list, ARGV[1] the maximum score
LuaScriptSkipsRemoval(z, l, maxScore) ==
    LET winners == ZRangeByScore(z, RangeMin, maxScore)
    IN  IF Len(winners) = 0
        THEN [zset |-> z, list |-> l, ret |-> 0]
        ELSE [zset |-> z, list |-> RPush(l, winners), ret |-> Len(winners)]

LuaScript(z, l, maxScore) ==
    LET winners == ZRangeByScore(z, RangeMin, maxScore)
    IN  IF Len(winners) = 0
        THEN [zset |-> z, list |-> l, ret |-> 0]
        ELSE [zset |-> ZRemRangeByScore(z, RangeMin, maxScore),
              list |-> RPush(l, winners),
              ret  |-> Len(winners)]

\* ------------------------------------------------------------- onReady

CanUseEvalStrictMinor(forceNoServerEval, version) ==
    IF forceNoServerEval THEN "false"
    ELSE IF version[1] > minVersionForEval[1] THEN "true"
    ELSE IF version[1] = minVersionForEval[1] /\ version[2] > minVersionForEval[2]
         THEN "true"
         ELSE "undefined"

\* onReady's canUseEval: assigned only on the branches that set it
CanUseEval(forceNoServerEval, version) ==
    IF forceNoServerEval THEN "false"
    ELSE IF version[1] > minVersionForEval[1] THEN "true"
    ELSE IF version[1] = minVersionForEval[1]
         THEN IF version[2] >= minVersionForEval[2] THEN "true"
              ELSE IF version[2] = minVersionForEval[2]
                   THEN IF version[3] >= minVersionForEval[3]
                        THEN "true" ELSE "undefined"
                   ELSE "undefined"
         ELSE "undefined"

\* if(this._usingServerEval)
Truthy(flag) == flag = "true"

\* the timestamp enqueueAt stores for its date argument: a number as it is,
\* a Date by its getTime()
Timestamp(date) == IF date.type = "number" THEN date.value ELSE date.time

\* the date arguments explored: every timestamp as a number, and the epoch
\* as a Date object
Dates == [type : {"number"}, value : Times] \cup [type : {"Date"}, time : {0}]

\* --------------------------------------------------------------- replies

NoReply == [op |-> "none", err |-> "none", val |-> 0, item |-> ""]

\* the callback a caller passed in
CallerCallback(op, err, val) == [op |-> op, err |-> err, val |-> val, item |-> ""]

\* scheduleAutoCheck's callback, function(err) { if(err) this.emit('error', err) }:
\* it is called as a plain function of strict code, so `this` is not the
\* scheduler and this.emit throws a TypeError
TickCallback(err) ==
    [op |-> "tick", err |-> IF err = "none" THEN "none" ELSE "TypeError",
     val |-> 0, item |-> ""]

CallbackDropsError(org, err, val) ==
    IF org = "tick" THEN TickCallback("none") ELSE CallerCallback("checkNow", "none", val)

Callback(org, err, val) ==
    IF org = "tick" THEN TickCallback(err) ELSE CallerCallback("checkNow", err, val)

\* no call made yet
NoCall == [fn |-> "none", inst |-> 0, mode |-> "none", outcome |-> "none",
           returned |-> "undefined", to |-> "nobody", what |-> "none",
           storeOps |-> 0]

\* ------------------------------------------------------------------ Init

OptionSets == [checkInterval : {0, DefaultCheckInterval}, forceNoServerEval : BOOLEAN]
\* the options the scheduling behaviours are explored with
SchedulingOptions ==
    {[checkInterval |-> DefaultCheckInterval, forceNoServerEval |-> FALSE]}

\* the state after `new ReScheduler(client, targetList, options)` with a client
\* that is not ready yet; a client that is ready runs onReady in the
\* constructor, which is the step Ready below
InitWith(optionSet) ==
    /\ zset = EmptyZset
    /\ list = <<>>
    /\ now = MsPerMinute
    /\ clientReady = FALSE
    /\ options \in optionSet
    /\ serverVersion = <<>>
    /\ usingServerEval = "undefined"
    /\ intervalId = "undefined"
    /\ pc = [i \in Invs |-> "idle"]
    /\ scheduledPayloads = [i \in Invs |-> <<>>]
    /\ appendedSince = [p \in Payloads |-> 0]
    /\ reply = NoReply
    /\ clientOpen = TRUE
    /\ shutDown = FALSE
    /\ wrapped = FALSE
    /\ promisified = [inst \in Instances |-> 0]
    /\ call = NoCall

Init == InitWith(SchedulingOptions)

\* --------------------------------------------------------------- actions

\* the client's 'ready' event: onReady (the listener is registered with once)
Ready(version) ==
    /\ ~clientReady
    /\ serverVersion = <<>>
    /\ clientReady' = TRUE
    /\ serverVersion' = version
    /\ usingServerEval' = CanUseEval(options.forceNoServerEval, version)
    /\ intervalId' = IF options.checkInterval > 0 THEN "set" ELSE "undefined"
    /\ UNCHANGED <<zset, list, now, options, pc, scheduledPayloads,
                   appendedSince, reply, clientOpen, shutDown,
                   wrapVars>>

\* time passes
AdvanceClock ==
    /\ now + MsPerMinute \in ClockTimes
    /\ now' = now + MsPerMinute
    /\ UNCHANGED <<zset, list, clientReady, options, serverVersion,
                   usingServerEval, intervalId, pc, scheduledPayloads,
                   appendedSince, reply, clientOpen, shutDown,
                   wrapVars>>

\* enqueueAt(date, payload, callback): one ZADD
EnqueueAt(date, payload) ==
    /\ LET r == ZAdd(zset, Timestamp(date), payload)
       IN  /\ zset' = r.zset
           /\ appendedSince' = [appendedSince EXCEPT ![payload] = 0]
           /\ reply' = CallerCallback("enqueueAt", "none", r.ret)
    /\ UNCHANGED <<list, now, clientReady, options, serverVersion,
                   usingServerEval, intervalId, pc, scheduledPayloads,
                   clientOpen, shutDown,
                   wrapVars>>

\* enqueueIn(minutes, payload, callback)
EnqueueIn(minutes, payload) ==
    /\ now + minutes * 60 * 1000 \in Times
    /\ EnqueueAt([type |-> "number", value |-> now + minutes * 60 * 1000], payload)

\* scheduledCount(callback): one ZCARD
ScheduledCount ==
    /\ reply' = CallerCallback("scheduledCount", "none", ZCard(zset))
    /\ UNCHANGED <<zset, list, now, clientReady, options, serverVersion,
                   usingServerEval, intervalId, pc, scheduledPayloads,
                   appendedSince, clientOpen, shutDown,
                   wrapVars>>

\* the payloads of z that are due at maxScore
Due(z, maxScore) == {p \in DOMAIN z : z[p] <= maxScore}

Min(a, b) == IF a < b THEN a ELSE b

\* appendedSince after `values` were pushed onto the list
CountAppends(values) ==
    [p \in Payloads |->
        Min(2, appendedSince[p] + Cardinality({k \in 1..Len(values) : values[k] = p}))]

\* who started invocation i: slot 1 carries the caller's checkNow, the other
\* slots the timer's
Origin(i) == IF i = 1 THEN "manual" ELSE "tick"

\* the timer's invocations take the lowest slot that is idle
FreeSlot(i) == pc[i] = "idle" /\ \A j \in Invs : (1 < j /\ j < i) => pc[j] # "idle"

\* checkNow(callback) up to its first command: the ready check, then EVAL on
\* the server-side path or ZRANGEBYSCORE on the other
CheckNow(i) ==
    /\ FreeSlot(i)
    /\ LET maxScore == now
       IN  IF ~clientReady
           THEN /\ reply' = Callback(Origin(i), "notReady", 0)
                /\ UNCHANGED <<zset, list, pc, scheduledPayloads, appendedSince>>
           ELSE IF Truthy(usingServerEval)
           THEN \/ LET r == LuaScript(zset, list, maxScore)
                   IN  /\ Len(r.list) <= MaxList
                       /\ zset' = r.zset
                       /\ list' = r.list
                       /\ appendedSince' = CountAppends(Suffix(list, r.list))
                       /\ reply' = Callback(Origin(i), "none", r.ret)
                       /\ UNCHANGED <<pc, scheduledPayloads>>
                \/ /\ reply' = Callback(Origin(i), "store", 0)
                   /\ UNCHANGED <<zset, list, pc, scheduledPayloads, appendedSince>>
           ELSE \/ LET res == ZRangeByScore(zset, RangeMin, maxScore)
                   IN  /\ IF Len(res) = 0
                          THEN /\ reply' = Callback(Origin(i), "none", 0)
                               /\ UNCHANGED <<pc, scheduledPayloads>>
                          ELSE \* scheduledPayloads.unshift(self.targetList)
                               /\ scheduledPayloads' =
                                      [scheduledPayloads EXCEPT ![i] = <<TargetList>> \o res]
                               /\ pc' = [pc EXCEPT ![i] = "rpush"]
                               /\ UNCHANGED reply
                       /\ UNCHANGED <<zset, list, appendedSince>>
                \/ /\ reply' = Callback(Origin(i), "store", 0)
                   /\ UNCHANGED <<zset, list, pc, scheduledPayloads, appendedSince>>
    /\ UNCHANGED <<now, clientReady, options, serverVersion, usingServerEval,
                   intervalId, clientOpen, shutDown,
                   wrapVars>>

\* the second command of the three: RPUSH targetList payload..., and its callback
PushStep(i) ==
    /\ pc[i] = "rpush"
    /\ \/ LET values == Tail(scheduledPayloads[i])
          IN  /\ Len(list) + Len(values) <= MaxList
              /\ list' = RPush(list, values)
              /\ appendedSince' = CountAppends(values)
              \* scheduledPayloads[0] = self.zsetName
              /\ scheduledPayloads' =
                     [scheduledPayloads EXCEPT ![i] = [@ EXCEPT ![1] = ZsetName]]
              /\ pc' = [pc EXCEPT ![i] = "zrem"]
              /\ UNCHANGED reply
       \/ /\ reply' = Callback(Origin(i), "store", 0)
          /\ pc' = [pc EXCEPT ![i] = "idle"]
          /\ scheduledPayloads' = [scheduledPayloads EXCEPT ![i] = <<>>]
          /\ UNCHANGED <<list, appendedSince>>
    /\ UNCHANGED <<zset, now, clientReady, options, serverVersion,
                   usingServerEval, intervalId, clientOpen, shutDown,
                   wrapVars>>

\* callback(null, scheduledPayloads.length - 1)
PromotedCountWithKey(payloads) == Len(payloads)

PromotedCount(payloads) == Len(payloads) - 1

\* the third: ZREM zsetName payload..., and its callback
RemoveStep(i) ==
    /\ pc[i] = "zrem"
    /\ \/ /\ zset' = ZRem(zset, Tail(scheduledPayloads[i]))
          /\ reply' = Callback(Origin(i), "none", PromotedCount(scheduledPayloads[i]))
       \/ /\ reply' = Callback(Origin(i), "store", 0)
          /\ UNCHANGED zset
    /\ pc' = [pc EXCEPT ![i] = "idle"]
    /\ scheduledPayloads' = [scheduledPayloads EXCEPT ![i] = <<>>]
    /\ UNCHANGED <<list, now, clientReady, options, serverVersion,
                   usingServerEval, intervalId, appendedSince, clientOpen,
                   shutDown, wrapVars>>

\* a caller's checkNow
ManualCheck == CheckNow(1)

\* setInterval's function: a tick of the auto-check timer
Tick(i) ==
    /\ i > 1
    /\ intervalId = "set"
    /\ CheckNow(i)

SameClientUnchecked(popClient) == FALSE

\* if(popClient === this.client)
SameClient(popClient) == popClient = "client"

\* pop(popClient, timeout, callback): the same-client check, then BLPOP, which
\* answers once the list holds a value, or with a nil reply when timeout > 0
\* runs out; res[1] of a nil reply throws a TypeError
Pop(popClient, timeout) ==
    /\ IF SameClient(popClient)
       THEN /\ reply' = CallerCallback("pop", "usage", 0)
            /\ UNCHANGED list
       ELSE \/ /\ list # <<>>
               /\ LET r == BLPop(list)
                  IN  /\ list' = r.list
                      /\ reply' = [op |-> "pop", err |-> "none", val |-> 0,
                                   item |-> r.res[2]]
            \/ /\ list = <<>>
               /\ timeout > 0
               /\ reply' = CallerCallback("pop", "TypeError", 0)
               /\ UNCHANGED list
            \/ /\ reply' = CallerCallback("pop", "store", 0)
               /\ UNCHANGED list
    /\ UNCHANGED <<zset, now, clientReady, options, serverVersion,
                   usingServerEval, intervalId, pc, scheduledPayloads,
                   appendedSince, clientOpen, shutDown,
                   wrapVars>>

Next ==
    \/ \E v \in SchedulingVersions : Ready(v)
    \/ AdvanceClock
    \/ \E d \in Dates, p \in Payloads : EnqueueAt(d, p)
    \/ \E m \in Minutes, p \in Payloads : EnqueueIn(m, p)
    \/ ScheduledCount
    \/ ManualCheck
    \/ \E i \in Invs : Tick(i)
    \/ \E i \in Invs : PushStep(i)
    \/ \E i \in Invs : RemoveStep(i)
    \/ \E c \in {"client", "popClient"}, t \in {0, 1} : Pop(c, t)

Spec == Init /\ [][Next]_vars

\* capability negotiation alone: every option set, every server version
InitNegotiation == InitWith(OptionSets)

NextNegotiation == \E v \in Versions : Ready(v)

SpecNegotiation == InitNegotiation /\ [][NextNegotiation]_vars

\* ------------------------------------------------------------- lifecycle

\* the connection of the scheduling client drops: client.ready is false again
Disconnect ==
    /\ clientReady /\ clientOpen
    /\ clientReady' = FALSE
    /\ UNCHANGED <<zset, list, now, options, serverVersion, usingServerEval,
                   intervalId, pc, scheduledPayloads, appendedSince, reply,
                   clientOpen, shutDown,
                   wrapVars>>

OnEveryReady(fired) == TRUE

\* this.client.once('ready', ...): the listener is called for the first
\* 'ready' only
Once(fired) == ~fired

\* the client is connected again and emits 'ready', possibly to a server of
\* another version
Reconnect(version) ==
    /\ ~clientReady /\ clientOpen /\ serverVersion # <<>>
    /\ clientReady' = TRUE
    /\ serverVersion' = version
    /\ IF Once(serverVersion # <<>>)
       THEN /\ usingServerEval' = CanUseEval(options.forceNoServerEval, version)
            /\ intervalId' = IF options.checkInterval > 0 THEN "set" ELSE intervalId
       ELSE UNCHANGED <<usingServerEval, intervalId>>
    /\ UNCHANGED <<zset, list, now, options, pc, scheduledPayloads,
                   appendedSince, reply, clientOpen, shutDown,
                   wrapVars>>

\* scheduleAutoCheck has run and defined this.stopChecking
StopCheckingDefined == serverVersion # <<>> /\ options.checkInterval > 0

ClearIntervalToggles(id) == IF id = "set" THEN "undefined" ELSE "set"

\* if(intervalId) clearInterval(intervalId); intervalId = undefined
ClearInterval(id) == "undefined"

\* stopChecking()
StopChecking ==
    /\ StopCheckingDefined
    /\ intervalId' = ClearInterval(intervalId)
    /\ UNCHANGED <<zset, list, now, clientReady, options, serverVersion,
                   usingServerEval, pc, scheduledPayloads, appendedSince,
                   reply, clientOpen, shutDown,
                   wrapVars>>

\* if(!!leaveClientOpen) this.client.quit()
Quits(leaveClientOpen) == leaveClientOpen

\* shutdown(leaveClientOpen); shutdown() is shutdown(FALSE)
Shutdown(leaveClientOpen) ==
    /\ intervalId' = IF StopCheckingDefined THEN ClearInterval(intervalId)
                                            ELSE intervalId
    /\ IF Quits(leaveClientOpen)
       THEN clientOpen' = FALSE /\ clientReady' = FALSE
       ELSE UNCHANGED <<clientOpen, clientReady>>
    /\ shutDown' = TRUE
    /\ UNCHANGED <<zset, list, now, options, serverVersion, usingServerEval,
                   pc, scheduledPayloads, appendedSince, reply, wrapVars>>

\* the scheduler's life: readiness, connection loss, ticks and manual checks
\* in flight, cancellation and shutdown, with one payload time
NextLifecycle ==
    \/ \E v \in SchedulingVersions : Ready(v)
    \/ Disconnect
    \/ \E v \in SchedulingVersions : Reconnect(v)
    \/ \E p \in Payloads : EnqueueAt([type |-> "number", value |-> 0], p)
    \/ ManualCheck
    \/ \E i \in Invs : Tick(i)
    \/ \E i \in Invs : PushStep(i)
    \/ \E i \in Invs : RemoveStep(i)
    \/ StopChecking
    \/ \E b \in BOOLEAN : Shutdown(b)

InitLifecycle == InitWith(OptionSets)

SpecLifecycle == InitLifecycle /\ [][NextLifecycle]_vars

\* -------------------------------------------------------------- progress

\* payload p is nowhere: not scheduled, not in the list, not held by a checkNow
Fresh(p) ==
    /\ p \notin DOMAIN zset
    /\ p \notin Range(list)
    /\ \A i \in Invs : p \notin Range(scheduledPayloads[i])

\* no checkNow is between two of its commands
NoneInFlight == \A i \in Invs : pc[i] = "idle"

\* a tick whose command the store answers, begun when the previous tick's
\* checkNow is over (the interval is a minute)
TickLive == \E i \in Invs : NoneInFlight /\ Tick(i) /\ reply'.err = "none"

\* the store answers the push, the removal
PushLive == \E i \in Invs : PushStep(i) /\ pc'[i] = "zrem"
RemoveLive == \E i \in Invs : RemoveStep(i) /\ reply'.err = "none"

\* the automatic checking with a store that never fails: payloads are
\* enqueued once each, the timer ticks, a consumer pops
NextLive ==
    \/ \E v \in SchedulingVersions : Ready(v)
    \/ AdvanceClock
    \/ \E t \in Times, p \in Payloads :
          Fresh(p) /\ EnqueueAt([type |-> "number", value |-> t], p)
    \/ TickLive
    \/ PushLive
    \/ RemoveLive
    \/ list # <<>> /\ Pop("popClient", 0) /\ reply'.err = "none"

InitLive == InitWith(OptionSets)

\* the client becomes ready, the timer fires, the store answers
SpecLive ==
    /\ InitLive /\ [][NextLive]_vars
    /\ WF_vars(\E v \in SchedulingVersions : Ready(v))
    /\ WF_vars(TickLive)
    /\ WF_vars(PushLive)
    /\ WF_vars(RemoveLive)

\* ----------------------------------------------------------------- qWrap

\* cbFns
Methods == {"enqueueAt", "enqueueIn", "scheduledCount", "checkNow", "pop"}

\* originalFn.length: the parameters the method declares
Arity(fn) == IF fn \in {"scheduledCount", "checkNow"} THEN 1 ELSE 3

\* Arguments are "value" (a date, minutes, a payload, a client), "timeout" (a
\* positive number of seconds), "callback" (the caller's function) and the
\* node resolvers Q.npost appends: "nodeback1" settles the promise the caller
\* is given, "nodeback2" one that npost makes for a nested call.
IsFunction(a) == a \in {"callback", "nodeback1", "nodeback2"}

Nodeback(k) == IF k = 1 THEN "nodeback1" ELSE "nodeback2"

\* the ways each method is called: with the trailing callback and without,
\* pop with its timeout and without
ArgLists(fn) ==
    IF fn \in {"scheduledCount", "checkNow"} THEN {<<"callback">>, <<>>}
    ELSE IF fn = "pop"
         THEN {<<"value", "timeout", "callback">>, <<"value", "timeout">>,
               <<"value", "callback">>, <<"value">>}
         ELSE {<<"value", "value", "callback">>, <<"value", "value">>}

Mode(args) ==
    IF Len(args) > 0 /\ args[Len(args)] = "callback" THEN "continuation"
                                                     ELSE "deferred"

\* the function the original method calls back: its last parameter, and for
\* pop the second argument when that is a function (timeout left out)
CallbackOf(fn, args) ==
    IF fn = "pop" /\ Len(args) >= 2 /\ IsFunction(args[2]) THEN args[2]
    ELSE IF Len(args) >= Arity(fn) THEN args[Arity(fn)]
    ELSE "undefined"

\* this[fnName](args) on an instance with `layers` promisify layers, after
\* k - 1 calls of Q.npost: the original method runs when the instance is not
\* wrapped or the argument count is its arity; otherwise Q.npost appends a
\* node resolver and calls this[fnName] again
RECURSIVE Dispatch(_, _, _, _)
Dispatch(layers, fn, args, k) ==
    IF layers = 0 \/ Len(args) = Arity(fn)
    THEN [callback |-> CallbackOf(fn, args), nposts |-> k - 1, originals |-> 1]
    ELSE Dispatch(layers, fn, Append(args, Nodeback(k)), k + 1)

\* what the store can answer: a value, an error, and for a blocking pop with
\* a timeout the nil reply
Outcomes(fn, args) ==
    {"value", "error"} \cup
        (IF fn = "pop" /\ "timeout" \in Range(args) THEN {"nil"} ELSE {})

\* who gets what from the method's store callback: pop reads res[1] of the
\* reply, which throws on nil; a missing callback gets nothing
Delivered(cb, outcome) ==
    IF outcome = "nil" THEN [to |-> "nobody", what |-> "TypeError"]
    ELSE IF cb = "undefined" THEN [to |-> "nobody", what |-> "none"]
    ELSE [to |-> cb, what |-> outcome]

\* checkNow on a client that is not ready: callback(new Error(...)) and
\* return; calling a callback that was not passed throws
NotReadyCall(cb) ==
    IF cb = "undefined" THEN [to |-> "nobody", what |-> "TypeError"]
    ELSE [to |-> cb, what |-> "notReady"]

\* qWrap() on an instance: the closure's `wrapped` is shared by every
\* instance, since qWrap lives on the prototype
QWrap(inst) ==
    /\ IF ~wrapped
       THEN /\ promisified' = [promisified EXCEPT ![inst] = @ + 1]
            /\ wrapped' = TRUE
       ELSE UNCHANGED <<wrapped, promisified>>
    /\ call' = [NoCall EXCEPT !.fn = "qWrap", !.inst = inst, !.returned = "this"]
    /\ UNCHANGED <<zset, list, now, clientReady, options, serverVersion,
                   usingServerEval, intervalId, pc, scheduledPayloads,
                   appendedSince, reply, clientOpen, shutDown>>

\* a method of an instance is called, and the store answers its command
Call(inst, fn, args, outcome) ==
    /\ LET d == Dispatch(promisified[inst], fn, args, 1)
           r == Delivered(d.callback, outcome)
       IN  call' = [fn |-> fn, inst |-> inst, mode |-> Mode(args),
                    outcome |-> outcome,
                    returned |-> IF d.nposts > 0 THEN "promise1" ELSE "undefined",
                    to |-> r.to, what |-> r.what,
                    storeOps |-> d.originals]
    /\ UNCHANGED <<zset, list, now, clientReady, options, serverVersion,
                   usingServerEval, intervalId, pc, scheduledPayloads,
                   appendedSince, reply, clientOpen, shutDown,
                   wrapped, promisified>>

NextWrap ==
    \/ \E inst \in Instances : QWrap(inst)
    \/ \E inst \in Instances, fn \in Methods :
          \E args \in ArgLists(fn) : \E outcome \in Outcomes(fn, args) :
              Call(inst, fn, args, outcome)

SpecWrap == Init /\ [][NextWrap]_vars

\* ---------------------------------------------------------------- claims

\* what a step took out of the sorted set, and what it put at the list's end
Removed == DOMAIN zset \ DOMAIN zset'
Appended == IF IsPrefix(list, list') THEN Suffix(list, list') ELSE <<>>

\* s lists its payloads by ascending score in z
Ascending(z, s) == \A j, k \in 1..Len(s) : z[s[j]] < z[s[k]] => j < k

\* the payloads an invocation holds, without the key at the array's head
Held(i) == Range(Tail(scheduledPayloads[i]))

\* the steps of invocation i whose command succeeded: the script, the range
\* query, the push, the removal
ScriptRan(i) ==
    /\ clientReady /\ Truthy(usingServerEval)
    /\ reply'.op = Callback(Origin(i), "none", 0).op /\ reply'.err = "none"
    /\ CheckNow(i)
QueryRan(i) ==
    /\ clientReady /\ ~Truthy(usingServerEval) /\ pc[i] = "idle"
    /\ \/ pc'[i] = "rpush"
       \/ reply'.op = Callback(Origin(i), "none", 0).op /\ reply'.err = "none"
    /\ CheckNow(i)
Pushed(i) == pc[i] = "rpush" /\ pc'[i] = "zrem" /\ PushStep(i)
RemovedOk(i) == pc[i] = "zrem" /\ reply'.err = "none" /\ RemoveStep(i)

\* C1: on the server-side path every step that takes payloads out of the
\* sorted set appends exactly those payloads to the list in the same step, and
\* every step that appends takes them out: no state lies between the two
\* effects of a checkNow, whatever other clients do in between.
C1_PromotionIsOneStep ==
    [][Truthy(usingServerEval) => Removed = Range(Appended)]_vars

\* a server-side checkNow has just moved a payload
C1_Witness ==
    /\ Truthy(usingServerEval)
    /\ reply.op = "checkNow" /\ reply.err = "none" /\ reply.val >= 1
    /\ list # <<>>

\* C2: every payload whose score is <= now when a checkNow's range query runs
\* is taken by that checkNow: the script appends it and removes it; on the
\* three-command path the query selects it, the push appends what was
\* selected and the removal takes it out of the sorted set, and a checkNow
\* that answers 0 at once had nothing due.
C2_DueArePromoted ==
    [][\A i \in Invs :
        /\ ScriptRan(i) =>
              \A p \in Due(zset, now) : p \notin DOMAIN zset' /\ p \in Range(list')
        /\ (QueryRan(i) /\ pc'[i] = "idle") => Due(zset, now) = {}
        /\ (QueryRan(i) /\ pc'[i] = "rpush") =>
              Due(zset, now) \subseteq Range(Tail(scheduledPayloads'[i]))
        /\ Pushed(i) => Held(i) \subseteq Range(list')
        /\ RemovedOk(i) => Held(i) \cap DOMAIN zset' = {}
      ]_vars

\* C3: a payload whose score is > now when a checkNow's range query runs is
\* not selected, and a checkNow appends and removes only what it selected,
\* leaving the score of every other payload as it was.
C3_FutureUntouched ==
    [][\A i \in Invs :
        /\ ScriptRan(i) =>
              \A p \in DOMAIN zset : zset[p] > now =>
                  /\ p \in DOMAIN zset' /\ zset'[p] = zset[p]
                  /\ p \notin Range(Appended)
        /\ QueryRan(i) =>
              /\ zset' = zset /\ list' = list
              /\ pc'[i] = "rpush" =>
                    \A p \in DOMAIN zset : zset[p] > now =>
                        p \notin Range(Tail(scheduledPayloads'[i]))
        /\ Pushed(i) =>
              /\ zset' = zset
              /\ Range(Appended) = Held(i)
              /\ Tail(scheduledPayloads'[i]) = Tail(scheduledPayloads[i])
        /\ RemovedOk(i) =>
              /\ list' = list
              /\ \A p \in DOMAIN zset \ Held(i) :
                    p \in DOMAIN zset' /\ zset'[p] = zset[p]
      ]_vars

\* a checkNow has moved one payload and another, due later, still waits
C3_Witness ==
    /\ reply.op = "checkNow" /\ reply.err = "none" /\ reply.val = 1
    /\ Len(list) = 1
    /\ \E p \in DOMAIN zset : zset[p] > now /\ p \notin Range(list)

\* C4: what one checkNow appends follows everything already in the list and
\* is in ascending score order: a payload scored t1 precedes one scored t2
\* whenever t1 < t2.
C4_AscendingOrder ==
    [][\A i \in Invs :
        /\ ScriptRan(i) =>
              /\ IsPrefix(list, list')
              /\ Ascending(zset, Appended)
              /\ Len(Appended) = reply'.val \/ Origin(i) = "tick"
        /\ (QueryRan(i) /\ pc'[i] = "rpush") =>
              Ascending(zset, Tail(scheduledPayloads'[i]))
        /\ Pushed(i) => list' = list \o Tail(scheduledPayloads[i])
      ]_vars

\* one checkNow has appended B (scored earlier) before A (scored later)
C4_Witness ==
    /\ reply.op = "checkNow" /\ reply.err = "none" /\ reply.val = 2
    /\ list = <<"B", "A">>

\* the payloads that are in the sorted set and in the list at once
InBoth == DOMAIN zset \cap Range(list)

\* C5 as stated: on the server-side path no payload is ever in the sorted set
\* and in the list at the same time.
C5_NeverInBoth == Truthy(usingServerEval) => InBoth = {}

\* C5, amended: on the server-side path a payload is in the sorted set and in
\* the list at once only when it was enqueued again after it was last
\* appended; a payload appended since its last enqueueAt is not in the set.
C5_InBothOnlyIfReenqueued ==
    Truthy(usingServerEval) =>
        /\ \A p \in InBoth : appendedSince[p] = 0
        /\ \A p \in DOMAIN zset : appendedSince[p] = 0

\* a payload was promoted by the script and then enqueued again before any
\* consumer popped it
C5_Witness ==
    /\ Truthy(usingServerEval)
    /\ reply.op = "enqueueAt" /\ reply.val = 1
    /\ InBoth # {}

\* C6: a payload is appended twice after one enqueueAt only on the
\* three-command path, and there it happens: a second invocation runs its
\* range query before the first has removed what it pushed, and both push.
C6_DoubleAppendOnlyWithoutScript ==
    \A p \in Payloads : appendedSince[p] >= 2 => ~Truthy(usingServerEval)

\* both invocations have queried and pushed the same payload, neither has
\* removed it yet: it was enqueued once and is in the list twice
C6_Witness ==
    /\ pc[1] = "zrem" /\ pc[2] = "zrem"
    /\ \E p \in Held(1) \cap Held(2) :
          /\ appendedSince[p] = 2
          /\ p \in DOMAIN zset
          /\ list = <<p, p>>

\* C7: a checkNow that finds no payload scored <= now answers 0 with no
\* error unless the store fails its command, and in either case leaves the
\* sorted set and the list as they were and sends no further command.
C7_NothingReady ==
    [][\A i \in Invs :
        (/\ clientReady /\ pc[i] = "idle" /\ Due(zset, now) = {}
         /\ reply'.op = Callback(Origin(i), "none", 0).op
         /\ CheckNow(i)) =>
            /\ zset' = zset /\ list' = list /\ pc' = pc
            /\ \/ reply' = Callback(Origin(i), "none", 0)
               \/ reply' = Callback(Origin(i), "store", 0)
      ]_vars

\* a caller's checkNow answered 0 while a payload due later was waiting
C7_Witness ==
    /\ clientReady
    /\ reply = CallerCallback("checkNow", "none", 0)
    /\ zset # EmptyZset /\ Due(zset, now) = {}
    /\ list = <<>>

\* the scenario of C8: A is due, B is not, the list is empty
Scenario ==
    /\ DOMAIN zset = {"A", "B"}
    /\ 0 <= zset["A"] /\ zset["A"] < now /\ now < zset["B"]
    /\ list = <<>>

\* C8: the number a successful checkNow answers is the number of payloads it
\* appended to the list; with A due, B not due and an empty list it answers
\* 1, the list is [A] and one payload stays scheduled.
C8_ResultIsAppendedCount ==
    [][/\ ScriptRan(1) =>
              /\ reply'.val = Len(list') - Len(list)
              /\ Scenario =>
                    reply'.val = 1 /\ list' = <<"A">> /\ ZCard(zset') = 1
       /\ QueryRan(1) =>
              /\ pc'[1] = "idle" => reply'.val = 0
              /\ Scenario => scheduledPayloads'[1] = <<TargetList, "A">>
       /\ Pushed(1) =>
              /\ Len(list') - Len(list) = Len(Tail(scheduledPayloads[1]))
              /\ Len(scheduledPayloads'[1]) = Len(scheduledPayloads[1])
       /\ RemovedOk(1) => reply'.val = Len(Tail(scheduledPayloads[1]))
      ]_vars

\* the scenario has run: checkNow answered 1, the list is [A], B is scheduled
C8_Witness ==
    /\ reply = CallerCallback("checkNow", "none", 1)
    /\ list = <<"A">>
    /\ DOMAIN zset = {"B"} /\ zset["B"] > now
    /\ ZCard(zset) = 1

\* the timestamp a date argument stands for
TimeOf(date) == IF date.type = "Date" THEN date.time ELSE date.value

\* C9: enqueueAt(t, p) answers 1 and adds p with score t when p is not in the
\* sorted set; when p is in it, it answers 0, sets p's score to t and leaves
\* the cardinality as it was.  No other payload's score changes.
C9_EnqueueAtUpserts ==
    [][(reply'.op = "enqueueAt" /\ pc' = pc /\ now' = now /\ list' = list) =>
        \A p \in {q \in Payloads : appendedSince'[q] = 0} : \A d \in Dates :
            EnqueueAt(d, p) =>
                /\ reply'.err = "none"
                /\ p \in DOMAIN zset' /\ zset'[p] = TimeOf(d)
                /\ DOMAIN zset' = DOMAIN zset \cup {p}
                /\ \A q \in DOMAIN zset \ {p} : zset'[q] = zset[q]
                /\ p \notin DOMAIN zset =>
                      reply'.val = 1 /\ ZCard(zset') = ZCard(zset) + 1
                /\ p \in DOMAIN zset =>
                      reply'.val = 0 /\ ZCard(zset') = ZCard(zset)
      ]_vars

\* enqueueAt has answered 0: the payload was waiting already
C9_Witness ==
    /\ reply = CallerCallback("enqueueAt", "none", 0)
    /\ ZCard(zset) >= 1

\* version a is lexicographically >= version b
LexGE(a, b) ==
    \/ a[1] > b[1]
    \/ a[1] = b[1] /\ a[2] > b[2]
    \/ a[1] = b[1] /\ a[2] = b[2] /\ a[3] >= b[3]

\* C10: once the client is ready, the server-side path is selected exactly
\* when forceNoServerEval is off and the server's version is >= 2.6.0.
C10_EvalIffVersion ==
    serverVersion # <<>> =>
        (Truthy(usingServerEval) <=>
            (~options.forceNoServerEval /\ LexGE(serverVersion, <<2, 6, 0>>)))

\* version 2.6.0 itself selects the server-side path
C10_Witness ==
    /\ serverVersion = <<2, 6, 0>>
    /\ ~options.forceNoServerEval
    /\ usingServerEval = "true"

\* C11: pop called with the scheduler's own client answers at once with a
\* usage error through the callback and sends no command: nothing leaves the
\* list and the sorted set is as it was.
C11_SameClientIsUsageError ==
    [][\A t \in {0, 1} :
        (reply'.op = "pop" /\ Pop("client", t)) =>
            /\ reply' = CallerCallback("pop", "usage", 0)
            /\ list' = list /\ zset' = zset
      ]_vars

\* pop with the scheduler's client was refused while a value was waiting
C11_Witness ==
    /\ reply = CallerCallback("pop", "usage", 0)
    /\ list # <<>>

\* C12: when BLPOP's timeout runs out on an empty list (a nil reply), pop
\* calls back with no error and an absent value, and nothing is thrown.
C12_TimeoutGivesEmpty ==
    [][\A t \in {0, 1} :
        (/\ list = <<>> /\ t > 0
         /\ reply'.op = "pop" /\ reply'.err # "store"
         /\ Pop("popClient", t)) =>
            reply'.err = "none" /\ reply'.item = ""
      ]_vars

\* C13: when a tick's checkNow fails (the store fails a command, or the
\* client is not ready), the callback emits 'error' with that error on the
\* scheduler and throws nothing: the completion of op "tick" carries the
\* error itself, never a TypeError.
C13_TickErrorIsEmitted ==
    [][\A i \in Invs :
        (/\ Origin(i) = "tick"
         /\ reply'.op = "tick" /\ reply'.err # "none"
         /\ (Tick(i) \/ PushStep(i) \/ RemoveStep(i))) =>
            reply'.err \in {"store", "notReady"}
      ]_vars

\* the payloads the range query of a checkNow selects now
Selected == ZRangeByScore(zset, RangeMin, now)

\* C19: when the store fails a command of the caller's checkNow (the script;
\* the range query, the push or the removal), the callback gets that error
\* and no value, the step changes neither the sorted set nor the list, and
\* the invocation is over: it sends no later command.
C19_StoreErrorEndsCheckNow ==
    [][\* a step of the invocation that ends it with the store's error
       /\ (/\ reply'.op = "checkNow" /\ reply'.err = "store" /\ pc'[1] = "idle"
           /\ (CheckNow(1) \/ PushStep(1) \/ RemoveStep(1))) =>
              /\ reply' = CallerCallback("checkNow", "store", 0)
              /\ scheduledPayloads'[1] = <<>>
              /\ zset' = zset /\ list' = list
       \* the script or the range query had payloads to select and moved none
       /\ (/\ clientReady /\ pc[1] = "idle" /\ pc'[1] = "idle"
           /\ Selected # <<>> /\ zset' = zset /\ list' = list
           /\ reply'.op = "checkNow"
           /\ CheckNow(1)) =>
              reply' = CallerCallback("checkNow", "store", 0)
       \* the push was not done: no removal follows
       /\ (pc[1] = "rpush" /\ pc'[1] = "idle" /\ PushStep(1)) =>
              /\ reply' = CallerCallback("checkNow", "store", 0)
              /\ list' = list /\ zset' = zset
       \* the removal was not done
       /\ (/\ pc[1] = "zrem" /\ Held(1) \cap DOMAIN zset # {} /\ zset' = zset
           /\ RemoveStep(1)) =>
              reply' = CallerCallback("checkNow", "store", 0)
      ]_vars

\* the caller's checkNow failed on the three-command path with a payload due:
\* the payload is still scheduled and the list is still empty
C19_Witness ==
    /\ reply = CallerCallback("checkNow", "store", 0)
    /\ ~Truthy(usingServerEval)
    /\ pc[1] = "idle"
    /\ Selected # <<>>
    /\ list = <<>>

\* automatic checking was started and has been cancelled
Stopped == StopCheckingDefined /\ intervalId = "undefined"

\* C14: stopChecking cancels the timer and calling it again changes nothing;
\* once cancelled the timer stays cancelled, so no tick begins; a checkNow a
\* tick had started keeps its place and its next command can still run.
C14_StopCheckingIsFinal ==
    [][/\ StopChecking => (Stopped' /\ pc' = pc /\ scheduledPayloads' = scheduledPayloads)
       /\ Stopped =>
              /\ Stopped'
              /\ \A i \in Invs : ~Tick(i)
              /\ \A i \in Invs : pc[i] = "rpush" => ENABLED PushStep(i)
              /\ \A i \in Invs : pc[i] = "zrem" => ENABLED RemoveStep(i)
      ]_vars

\* checking was cancelled while a tick's checkNow was between its push and
\* its removal
C14_Witness ==
    /\ Stopped
    /\ pc[2] = "zrem"
    /\ list # <<>>

\* C16: shutdown(leaveClientOpen) quits the scheduling client exactly when
\* leaveClientOpen is not true: after shutdown(true) the client is open,
\* after shutdown() or shutdown(false) it is closed.
C16_ShutdownClosesUnlessLeftOpen ==
    [][\A b \in BOOLEAN :
        (clientOpen /\ Shutdown(b)) => (clientOpen' <=> b)
      ]_vars

\* C20: once onReady has run, _usingServerEval never changes: a later
\* 'ready' of the client, to whatever server version, leaves it as it is.
C20_DecisionMadeOnce ==
    [][serverVersion # <<>> => usingServerEval' = usingServerEval]_vars

\* the client reconnected to a 2.6.0 server after the decision was taken
\* on a 2.5.9 one, and a checkNow is running the three commands
C20_Witness ==
    /\ clientReady
    /\ serverVersion = <<2, 6, 0>>
    /\ ~options.forceNoServerEval
    /\ ~Truthy(usingServerEval)
    /\ \E i \in Invs : pc[i] = "rpush"

\* C15: with checkInterval > 0, a client that becomes ready and a store that
\* answers, a payload that is scheduled with a score <= now and has not been
\* appended since it was enqueued is eventually appended to the list.
C15_DueEventuallyAppended ==
    \A p \in Payloads :
        (/\ options.checkInterval > 0
         /\ p \in DOMAIN zset /\ zset[p] <= now /\ appendedSince[p] = 0)
            ~> (appendedSince[p] > 0)

\* the same for the payloads the range queries can select, scored from the
\* epoch on
DueSinceEpochEventuallyAppended ==
    \A p \in Payloads :
        (/\ options.checkInterval > 0
         /\ p \in DOMAIN zset /\ RangeMin <= zset[p] /\ zset[p] <= now
         /\ appendedSince[p] = 0)
            ~> (appendedSince[p] > 0)

\* the timer is set only by onReady, and only when checkInterval > 0
NoTickBeforeReady ==
    intervalId = "set" => (serverVersion # <<>> /\ options.checkInterval > 0)

\* C17: after qWrap() on an instance, whatever qWrap calls other instances
\* have had, that instance's five methods are promisified, once.
C17_QWrapWrapsTheInstance ==
    call.fn = "qWrap" => promisified[call.inst] = 1

\* C18: on a promisified instance, for every method and every answer of the
\* store, the command is sent once, and the answer goes to the caller's
\* callback when one is passed and settles the returned promise when none is.
C18_ModesAgree ==
    (call.fn \in Methods /\ promisified[call.inst] = 1) =>
        /\ call.storeOps = 1
        /\ call.what = call.outcome
        /\ call.mode = "continuation" => call.to = "callback"
        /\ call.mode = "deferred" =>
              call.to = "nodeback1" /\ call.returned = "promise1"

\* the same, for the store's values and errors
ModesAgreeUnlessNil ==
    (call.fn \in Methods /\ promisified[call.inst] = 1 /\ call.outcome # "nil") =>
        /\ call.storeOps = 1
        /\ call.what = call.outcome
        /\ call.mode = "continuation" => call.to = "callback"
        /\ call.mode = "deferred" =>
              call.to = "nodeback1" /\ call.returned = "promise1"

\* C21: once shutdown() has returned no tick begins, whether shutdown came
\* before or after the client's 'ready'.
C21_NoTickAfterShutdown ==
    [][shutDown => \A i \in Invs : ~Tick(i)]_vars

\* a score that is within 0..maxScore for every maxScore a checkNow can have
InEveryRange(score) == RangeMin <= score /\ \A t \in ClockTimes : score <= t

\* C22 as stated: on the three-command path the removal takes out every
\* payload scored within the range the query asked for that is in the sorted
\* set when the removal runs.
C22_RemovesTheQueriedRange ==
    [][\A i \in Invs :
        RemovedOk(i) =>
            \A q \in DOMAIN zset : InEveryRange(zset[q]) => q \notin DOMAIN zset'
      ]_vars

\* C22, amended: on the three-command path the removal takes out exactly the
\* payloads the range query returned, by name: what the invocation holds is
\* the query's result from the query to the removal, and a payload that came
\* into the range after the query stays in the sorted set.
C22_RemovesWhatWasQueried ==
    [][\A i \in Invs :
        /\ (QueryRan(i) /\ pc'[i] = "rpush") =>
              Tail(scheduledPayloads'[i]) = ZRangeByScore(zset, RangeMin, now)
        /\ (pc[i] # "idle" /\ pc'[i] # "idle") =>
              Tail(scheduledPayloads'[i]) = Tail(scheduledPayloads[i])
        /\ RemovedOk(i) =>
              /\ DOMAIN zset' = DOMAIN zset \ Held(i)
              /\ \A q \in DOMAIN zset' : zset'[q] = zset[q]
      ]_vars

\* the caller's checkNow has appended one payload and removed it, and a
\* payload scored within its range, enqueued after its query, is still
\* scheduled
C22_Witness ==
    /\ ~Truthy(usingServerEval)
    /\ reply = CallerCallback("checkNow", "none", 1)
    /\ \E q \in DOMAIN zset : InEveryRange(zset[q]) /\ appendedSince[q] = 0

\* C23: a caller's checkNow on a client that is not ready calls back with
\* the not-ready error and does nothing else: no command is sent, the sorted
\* set, the list and every invocation in flight are as they were.  The
\* function it calls back exists in both modes, so nothing is thrown: the
\* caller's callback, or on a promisified instance the node resolver of the
\* returned promise, which is rejected with the error.
C23_NotReadyIsAnError ==
    [][(/\ ~clientReady /\ pc[1] = "idle"
        /\ reply'.op = "checkNow"
        /\ CheckNow(1)) =>
            /\ reply' = CallerCallback("checkNow", "notReady", 0)
            /\ zset' = zset /\ list' = list
            /\ pc' = pc /\ scheduledPayloads' = scheduledPayloads
            /\ NotReadyCall(Dispatch(0, "checkNow", <<"callback">>, 1).callback)
                   = [to |-> "callback", what |-> "notReady"]
            /\ \A args \in ArgLists("checkNow") :
                   NotReadyCall(Dispatch(1, "checkNow", args, 1).callback)
                       = [to   |-> IF Mode(args) = "continuation"
                                   THEN "callback" ELSE "nodeback1",
                          what |-> "notReady"]
      ]_vars

\* the connection was lost with a payload due, and the caller's checkNow
\* got the not-ready error
C23_Witness ==
    /\ ~clientReady /\ serverVersion # <<>>
    /\ reply = CallerCallback("checkNow", "notReady", 0)
    /\ Selected # <<>>

\* C24: a payload leaves the sorted set only in a step of a checkNow that
\* has appended it: the script appends what it removes in the same step; on
\* the three-command path an invocation reaches its removal only through its
\* own successful push, which appends everything it holds, it holds the same
\* payloads until the removal, and the removal takes out nothing else.
C24_RemovedWasAppended ==
    [][/\ \A i \in Invs :
            /\ (pc[i] # "zrem" /\ pc'[i] = "zrem") =>
                  /\ Pushed(i)
                  /\ Held(i) \subseteq Range(Appended)
                  /\ Tail(scheduledPayloads'[i]) = Tail(scheduledPayloads[i])
            /\ (pc[i] = "zrem" /\ pc'[i] = "zrem") =>
                  scheduledPayloads'[i] = scheduledPayloads[i]
       /\ Removed # {} =>
            \/ Truthy(usingServerEval) /\ Removed \subseteq Range(Appended)
            \/ \E i \in Invs :
                  pc[i] = "zrem" /\ Removed \subseteq Held(i) /\ RemoveStep(i)
      ]_vars

\* the three commands have moved two payloads: both are in the list and the
\* sorted set is empty
C24_Witness ==
    /\ ~Truthy(usingServerEval)
    /\ reply = CallerCallback("checkNow", "none", 2)
    /\ zset = EmptyZset
    /\ Len(list) = 2 /\ \A p \in Range(list) : appendedSince[p] >= 1

\* C25: a payload scheduled for later than now is not touched by any step of
\* a checkNow: it stays in the sorted set with its score until it is
\* enqueued again (every checkNow in flight has a maxScore <= now).
C25_LaterScheduleSurvives ==
    [][\A p \in DOMAIN zset :
        zset[p] > now =>
            \/ p \in DOMAIN zset' /\ zset'[p] = zset[p]
            \/ reply'.op = "enqueueAt" /\ p \in DOMAIN zset'
      ]_vars

\* C26: when the caller's checkNow ends with the store's error, nothing it
\* held has been appended: a payload it held that is still scheduled has not
\* been appended since it was enqueued.
C26_ErrorChangedNothing ==
    [][(/\ reply'.op = "checkNow" /\ reply'.err = "store"
        /\ pc[1] # "idle" /\ pc'[1] = "idle"
        /\ \A j \in Invs \ {1} : pc[j] = "idle"
        /\ (PushStep(1) \/ RemoveStep(1))) =>
            \A p \in Held(1) \cap DOMAIN zset' : appendedSince'[p] = 0
      ]_vars

====
